---- MODULE Spec2Model ----
(***************************************************************************)
(* A model of the OrthOpen add-on: helpers.mouse_ray_cast,                 *)
(* helpers.object_size and the five operators ORTHOPEN_OT_set_foot_pivot,  *)
(* ORTHOPEN_OT_permanent_modifiers, ORTHOPEN_OT_import_file,               *)
(* ORTHOPEN_OT_foot_splint and ORTHOPEN_OT_leg_prosthesis_generate, with   *)
(* the methods they call.                                                  *)
(*                                                                         *)
(* Floating point numbers are modelled exactly, extended with the signed   *)
(* zeros, the infinities and nan of IEEE 754, which is what numpy produces *)
(* on a division by zero.  Rounding is not modelled.                       *)
(***************************************************************************)
EXTENDS Integers, Sequences, FiniteSets, TLC

VARIABLES
    \* helpers.mouse_ray_cast
    ray_origin_world,   \* view3d_utils.region_2d_to_origin_3d(...)
    view_vector,        \* view3d_utils.region_2d_to_vector_3d(...)
    object_instances,   \* context.evaluated_depsgraph_get().object_instances
    best_obj_data,      \* the RayCastResult returned
    pick_pc,            \* "idle" | "call" | "returned" | "raised"
    \* ORTHOPEN_OT_leg_prosthesis_generate
    cosmetics_main,     \* the object "cosmetics_main" of the assets file
    fastening_clip,     \* the object "clip" of the assets file
    max_circumference,  \* operator property
    height,             \* operator property
    clip_position_z,    \* operator property
    fit_pc,             \* "idle" | "call" | "done"
    \* ORTHOPEN_OT_set_foot_pivot._weight_paint
    vertices,           \* bpy.context.active_object.data.vertices: [co, select]
    ankle_point,        \* the copy of the selected vertex
    foot,               \* the vertex group: vertex index -> weight
    paint_pc,           \* "idle" | "call" | "done"
    \* ORTHOPEN_OT_foot_splint.execute
    selected_verts,     \* the selected points, sorted in Z direction
    polygon,            \* selected_verts with the two vertices added: the outline
    splint_pc,          \* "idle" | "done"
    \* The scene on which the operators of the add-on act
    objects,            \* bpy.data.objects: object id -> object
    active_object,      \* context.active_object: an object id or None
    mode,               \* "OBJECT" | "EDIT" | "POSE"
    mesh_verts,         \* the edit mesh of the active object, in edit mode:
                        \* its vertices [co, select]; empty in the other modes
    next_id,            \* the id of the next object made
    last_op             \* the last operator run and what it returned

pick_vars == <<ray_origin_world, view_vector, object_instances, best_obj_data, pick_pc>>

fit_vars == <<cosmetics_main, fastening_clip, max_circumference, height,
              clip_position_z, fit_pc>>

paint_vars == <<vertices, ankle_point, foot, paint_pc>>

splint_vars == <<selected_verts, polygon, splint_pc>>

scene_vars == <<objects, active_object, mode, mesh_verts, next_id, last_op>>

vars == <<pick_vars, fit_vars, paint_vars, splint_vars, scene_vars>>

None == "None"

\* None, where an object id is expected: object ids start at 1
NoId == 0

----------------------------------------------------------------------------
(* Arithmetic on Python / numpy floats.  A float is <<n, d, k>>:            *)
(*   n # 0, d > 0   the number (n/d) * pi^k, n/d in lowest terms;           *)
(*   <<0, 1, 0>>    +0.0,   <<0, -1, 0>>  -0.0;                             *)
(*   <<1, 0, 0>>    +inf,   <<-1, 0, 0>>  -inf;                             *)
(*   <<0, 0, 0>>    nan.                                                    *)
(* The operations follow IEEE 754 on the specials and on the sign of zero   *)
(* and are exact on the numbers: rounding is not modelled.  The power of pi *)
(* stands for np.pi, the float nearest to pi.  A sum of two numbers with    *)
(* different powers of pi is no number of this form.                        *)

Abs(x) == IF x < 0 THEN -x ELSE x

Sign(x) == IF x < 0 THEN -1 ELSE IF x > 0 THEN 1 ELSE 0

RECURSIVE Gcd(_, _)
Gcd(a, b) == IF b = 0 THEN a ELSE Gcd(b, a % b)

NaN == <<0, 0, 0>>

IsNaN(a) == a[1] = 0 /\ a[2] = 0

IsFinite(a) == a[2] # 0

IsZero(a) == a[1] = 0 /\ a[2] # 0

\* The sign bit of a float that is not nan: -1 when set, 1 otherwise
SignBit(a) == IF a[1] < 0 \/ (a[1] = 0 /\ a[2] < 0) THEN -1 ELSE 1

\* The float with sign s and magnitude (n/d) * pi^k, for n >= 0 and d >= 0:
\* n/0 is an infinity and 0/0 is nan
Float(s, n, d, k) ==
    IF n = 0 /\ d = 0 THEN NaN
    ELSE IF d = 0 THEN <<s, 0, 0>>
    ELSE IF n = 0 THEN <<0, s, 0>>
    ELSE LET g == Gcd(n, d) IN <<s * (n \div g), d \div g, k>>

\* The float n/d of a literal such as 0.02 = 2/100
Rat(n, d) == Float(IF (n < 0) # (d < 0) THEN -1 ELSE 1, Abs(n), Abs(d), 0)

\* The float of an integer
R(i) == Rat(i, 1)

\* a * b
RMul(a, b) ==
    IF IsNaN(a) \/ IsNaN(b) THEN NaN
    ELSE Float(SignBit(a) * SignBit(b), Abs(a[1]) * Abs(b[1]), Abs(a[2]) * Abs(b[2]),
               a[3] + b[3])

\* a / b; x / 0 is an infinity and 0 / 0 is nan, with no exception (numpy)
RDiv(a, b) ==
    IF IsNaN(a) \/ IsNaN(b) THEN NaN
    ELSE Float(SignBit(a) * SignBit(b), Abs(a[1]) * Abs(b[2]), Abs(a[2]) * Abs(b[1]),
               a[3] - b[3])

\* a + b; numbers with different powers of pi have no sum in the model
RAdd(a, b) ==
    IF IsNaN(a) \/ IsNaN(b) THEN NaN
    ELSE IF ~IsFinite(a) THEN (IF ~IsFinite(b) /\ b # a THEN NaN ELSE a)
    ELSE IF ~IsFinite(b) THEN b
    ELSE IF IsZero(a) /\ IsZero(b) THEN (IF SignBit(a) = -1 /\ SignBit(b) = -1 THEN a ELSE R(0))
    ELSE IF IsZero(a) THEN b
    ELSE IF IsZero(b) THEN a
    ELSE LET k == CHOOSE e \in {a[3]} : e = b[3]
             n == a[1] * b[2] + b[1] * a[2]
         IN  Float(IF n < 0 THEN -1 ELSE 1, Abs(n), a[2] * b[2], k)

\* -a
RNeg(a) == IF IsNaN(a) THEN NaN ELSE IF IsZero(a) THEN <<0, -a[2], 0>> ELSE <<-a[1], a[2], a[3]>>

\* a - b
RSub(a, b) == RAdd(a, RNeg(b))

\* pi lies between PiLow and PiHigh
PiLow == <<333, 106>>

PiHigh == <<355, 113>>

\* q[1]/q[2] to the power e, for e >= 0
RECURSIVE QPow(_, _)
QPow(q, e) == IF e = 0 THEN <<1, 1>> ELSE LET r == QPow(q, e - 1) IN <<q[1] * r[1], q[2] * r[2]>>

\* n/d < pi^e for positive n/d, decided by the bounds on pi
LtPiPower(n, d, e) ==
    LET lo == IF e >= 0 THEN QPow(PiLow, e) ELSE QPow(<<PiHigh[2], PiHigh[1]>>, -e)
        hi == IF e >= 0 THEN QPow(PiHigh, e) ELSE QPow(<<PiLow[2], PiLow[1]>>, -e)
    IN  CHOOSE lt \in BOOLEAN :
           /\ lt => n * lo[2] <= lo[1] * d
           /\ ~lt => n * hi[2] >= hi[1] * d

\* a < b; every comparison with nan is false, and -0.0 is not below +0.0
RLt(a, b) ==
    IF IsNaN(a) \/ IsNaN(b) THEN FALSE
    ELSE IF ~IsFinite(a) THEN a[1] < 0 /\ b # a
    ELSE IF ~IsFinite(b) THEN b[1] > 0
    ELSE IF IsZero(a) \/ IsZero(b) \/ a[3] = b[3] \/ Sign(a[1]) # Sign(b[1])
         THEN a[1] * Abs(b[2]) < b[1] * Abs(a[2])
    ELSE IF a[1] > 0
         THEN LtPiPower(a[1] * b[2], a[2] * b[1], b[3] - a[3])
    ELSE ~LtPiPower(Abs(a[1]) * b[2], a[2] * Abs(b[1]), b[3] - a[3])

\* a <= b
RLe(a, b) == ~IsNaN(a) /\ ~IsNaN(b) /\ ~RLt(b, a)

----------------------------------------------------------------------------
(* mathutils.Vector and mathutils.Matrix.  A matrix_world is a scale       *)
(* (per axis) followed by a translation: [scale, translation].             *)

Vec(x, y, z) == <<R(x), R(y), R(z)>>

VAdd(u, v) == <<RAdd(u[1], v[1]), RAdd(u[2], v[2]), RAdd(u[3], v[3])>>

VSub(u, v) == <<RSub(u[1], v[1]), RSub(u[2], v[2]), RSub(u[3], v[3])>>

VScale(t, u) == <<RMul(t, u[1]), RMul(t, u[2]), RMul(t, u[3])>>

\* Vector.length_squared
length_squared(u) == RAdd(RAdd(RMul(u[1], u[1]), RMul(u[2], u[2])), RMul(u[3], u[3]))

\* Matrix.inverted() raises ValueError when the matrix has no inverse
Invertible(m) == \A i \in 1..3 : m.scale[i] # 0

\* matrix_world @ p
MatMul(m, p) ==
    <<RAdd(RMul(R(m.scale[1]), p[1]), R(m.translation[1])),
      RAdd(RMul(R(m.scale[2]), p[2]), R(m.translation[2])),
      RAdd(RMul(R(m.scale[3]), p[3]), R(m.translation[3]))>>

\* matrix_world.inverted() @ p, for an invertible matrix_world
MatInvMul(m, p) ==
    <<RDiv(RSub(p[1], R(m.translation[1])), R(m.scale[1])),
      RDiv(RSub(p[2], R(m.translation[2])), R(m.scale[2])),
      RDiv(RSub(p[3], R(m.translation[3])), R(m.scale[3]))>>

----------------------------------------------------------------------------
(* bpy.types.Object.ray_cast(origin, direction) on a mesh, in object       *)
(* coordinates.  A mesh is a sequence of faces; a face is an axis-aligned  *)
(* rectangle [x0,x1] x [y0,y1] in the plane z = face.z with normal         *)
(* (0, 0, face.normal).  The nearest face along the ray is returned.       *)

\* The ray parameter at which the ray meets the plane of the face
FaceParam(face, origin, direction) == RDiv(RSub(R(face.z), origin[3]), direction[3])

FacePoint(face, origin, direction) ==
    VAdd(origin, VScale(FaceParam(face, origin, direction), direction))

FaceHit(face, origin, direction) ==
    /\ ~IsZero(direction[3])
    /\ RLe(R(0), FaceParam(face, origin, direction))
    /\ LET p == FacePoint(face, origin, direction)
       IN  /\ RLe(R(face.x0), p[1]) /\ RLe(p[1], R(face.x1))
           /\ RLe(R(face.y0), p[2]) /\ RLe(p[2], R(face.y1))

\* The index of the nearest face hit among the first n faces, 0 when none is hit
RECURSIVE NearestFace(_, _, _, _)
NearestFace(mesh, n, origin, direction) ==
    IF n = 0 THEN 0
    ELSE LET before == NearestFace(mesh, n - 1, origin, direction)
         IN  IF ~FaceHit(mesh[n], origin, direction) THEN before
             ELSE IF before = 0 THEN n
             ELSE IF RLt(FaceParam(mesh[n], origin, direction),
                         FaceParam(mesh[before], origin, direction)) THEN n
             ELSE before

\* hit, intersection_point, normal, index = obj.ray_cast(origin, direction)
ray_cast(obj, origin, direction) ==
    LET i == NearestFace(obj.mesh, Len(obj.mesh), origin, direction)
    IN  IF i = 0
        THEN [hit |-> FALSE, location |-> Vec(0, 0, 0), normal |-> Vec(0, 0, 0), index |-> -1]
        ELSE [hit |-> TRUE,
              location |-> FacePoint(obj.mesh[i], origin, direction),
              normal |-> Vec(0, 0, obj.mesh[i].normal),
              index |-> i - 1]

----------------------------------------------------------------------------
(* helpers.mouse_ray_cast                                                  *)

\* RayCastResult(None, None, None, None)
NoResult == [object |-> None, intersection_point |-> None,
             face_normal |-> None, face_index |-> None]

\* We have to treat instances and copies a bit differently
InstanceObj(instance) ==
    IF instance.is_instance THEN instance.instance_object ELSE instance.object

InstanceMatrix(instance) ==
    IF instance.is_instance THEN instance.matrix_world ELSE instance.object.matrix_world

ray_target_world == VAdd(ray_origin_world, view_vector)

ray_origin_obj(matrix_world) == MatInvMul(matrix_world, ray_origin_world)

ray_target_obj(matrix_world) == MatInvMul(matrix_world, ray_target_world)

ray_direction_obj(matrix_world) ==
    VSub(ray_target_obj(matrix_world), ray_origin_obj(matrix_world))

\* obj.ray_cast(ray_origin_obj, ray_direction_obj) of one instance
InstanceCast(instance) ==
    ray_cast(InstanceObj(instance),
             ray_origin_obj(InstanceMatrix(instance)),
             ray_direction_obj(InstanceMatrix(instance)))

\* length_squared = (intersection_point - ray_origin_obj).length_squared
InstanceLengthSquared(instance) ==
    length_squared(VSub(InstanceCast(instance).location,
                        ray_origin_obj(InstanceMatrix(instance))))

\* A replacement criterion with <= in the place of <
IsBetterOrEqual(best, best_length_squared, len_sq) ==
    best.object = None \/ RLe(len_sq, best_length_squared)

\* if best_obj_data.object is None or length_squared < best_length_squared
IsBetter(best, best_length_squared, len_sq) ==
    best.object = None \/ RLt(len_sq, best_length_squared)

\* A loop body that records the cast whether or not it hit
LoopBodyNoHitTest(acc, instance) ==
    IF acc.raised THEN acc
    ELSE IF InstanceObj(instance).type # "MESH" THEN acc
    ELSE IF ~Invertible(InstanceMatrix(instance)) THEN [acc EXCEPT !.raised = TRUE]
    ELSE LET cast == InstanceCast(instance)
             len_sq == InstanceLengthSquared(instance)
         IN  IF IsBetter(acc.best_obj_data, acc.best_length_squared, len_sq)
             THEN [acc EXCEPT
                     !.best_obj_data = [object |-> InstanceObj(instance).name,
                                        intersection_point |-> cast.location,
                                        face_normal |-> cast.normal,
                                        face_index |-> cast.index],
                     !.best_length_squared = len_sq]
             ELSE acc

\* One iteration of the loop over the object instances.  acc.raised: an
\* earlier iteration raised ValueError (Matrix.inverted() of a matrix that has
\* no inverse), which nothing catches.
LoopBody(acc, instance) ==
    IF acc.raised THEN acc
    ELSE IF InstanceObj(instance).type # "MESH" THEN acc
    ELSE IF ~Invertible(InstanceMatrix(instance)) THEN [acc EXCEPT !.raised = TRUE]
    ELSE LET cast == InstanceCast(instance)
             len_sq == InstanceLengthSquared(instance)
         IN  IF cast.hit /\ IsBetter(acc.best_obj_data, acc.best_length_squared, len_sq)
             THEN [acc EXCEPT
                     !.best_obj_data = [object |-> InstanceObj(instance).name,
                                        intersection_point |-> cast.location,
                                        face_normal |-> cast.normal,
                                        face_index |-> cast.index],
                     !.best_length_squared = len_sq]
             ELSE acc

\* The loop over the first n object instances
RECURSIVE RayCastLoop(_, _)
RayCastLoop(instances, n) ==
    IF n = 0
    THEN [best_obj_data |-> NoResult, best_length_squared |-> R(-1), raised |-> FALSE]
    ELSE LoopBody(RayCastLoop(instances, n - 1), instances[n])

\* The call of mouse_ray_cast: it returns best_obj_data, or ValueError leaves it
MouseRayCast ==
    /\ pick_pc = "call"
    /\ LET out == RayCastLoop(object_instances, Len(object_instances))
       IN  /\ pick_pc' = IF out.raised THEN "raised" ELSE "returned"
           /\ best_obj_data' = IF out.raised THEN best_obj_data ELSE out.best_obj_data
    /\ UNCHANGED <<ray_origin_world, view_vector, object_instances>>
    /\ UNCHANGED <<fit_vars, paint_vars, splint_vars, scene_vars>>

----------------------------------------------------------------------------
(* The inputs of mouse_ray_cast: a scene of object instances and a ray.    *)

\* The longest sequence of object instances
MaxInstances == 3

Square(z, half, normal) ==
    [z |-> z, x0 |-> -half, x1 |-> half, y0 |-> -half, y1 |-> half, normal |-> normal]

Object(name, type, scale, translation, mesh) ==
    [name |-> name, type |-> type,
     matrix_world |-> [scale |-> scale, translation |-> translation],
     mesh |-> mesh]

\* instance_object of an object instance that is no instance
NoObject == Object(None, None, <<1, 1, 1>>, <<0, 0, 0>>, <<>>)

\* An object of the scene itself
Original(obj) ==
    [is_instance |-> FALSE, object |-> obj, instance_object |-> NoObject,
     matrix_world |-> obj.matrix_world]

\* An instance of obj made by the instancer parent, placed by the matrix
Instanced(parent, obj, scale, translation) ==
    [is_instance |-> TRUE, object |-> parent, instance_object |-> obj,
     matrix_world |-> [scale |-> scale, translation |-> translation]]

Wall == Object("wall", "MESH", <<1, 1, 1>>, <<0, 0, 0>>, <<Square(4, 2, 1)>>)

InstancePool ==
    { Original(Wall),
      \* scaled 4 times: its face is at z = 8 in the world, z = 2 in the object
      Original(Object("big", "MESH", <<4, 4, 4>>, <<0, 0, 0>>, <<Square(2, 1, 1)>>)),
      \* as far from the origin as the wall
      Original(Object("twin", "MESH", <<1, 1, 1>>, <<0, 0, 0>>, <<Square(4, 3, -1)>>)),
      \* scaled along z only, two faces: z = 7 and z = 3 in the world
      Original(Object("tube", "MESH", <<1, 1, 2>>, <<0, 0, 1>>,
                      <<Square(3, 1, 1), Square(1, 1, -1)>>)),
      \* flattened: its matrix has no inverse
      Original(Object("flat", "MESH", <<1, 1, 0>>, <<0, 0, 2>>, <<Square(0, 2, 1)>>)),
      \* no mesh, and a matrix with no inverse
      Original(Object("lamp", "LIGHT", <<0, 0, 0>>, <<0, 0, 1>>, <<>>)),
      \* out of the way of the rays from the origin along z
      Original(Object("far", "MESH", <<1, 1, 1>>, <<6, 0, 0>>, <<Square(1, 1, 1)>>)),
      \* an instance of a mesh, placed at z = 2 by an empty
      Instanced(Object("dupli", "EMPTY", <<1, 1, 1>>, <<0, 0, 0>>, <<>>),
                Object("leaf", "MESH", <<1, 1, 1>>, <<9, 9, 9>>, <<Square(0, 1, 1)>>),
                <<2, 2, 1>>, <<0, 0, 2>>) }

\* <<ray_origin_world, view_vector>>
Rays ==
    { <<Vec(0, 0, 0), Vec(0, 0, 1)>>,
      <<Vec(0, 0, 0), Vec(1, 0, 2)>>,
      <<Vec(0, 0, 6), Vec(0, 0, -1)>>,
      <<Vec(6, 0, -1), Vec(0, 0, 1)>>,
      <<Vec(9, 9, 0), Vec(0, 1, 0)>> }

\* Every object is in the dependency graph once
InstanceLists ==
    { s \in UNION { [1..n -> InstancePool] : n \in 0..MaxInstances } :
        \A i, j \in DOMAIN s : i # j => s[i] # s[j] }

----------------------------------------------------------------------------
(* helpers.object_size and                                                 *)
(* ORTHOPEN_OT_leg_prosthesis_generate._adjust_scalings_and_sizes.         *)
(* An object is [bound_min, bound_max, scale, translation]: the corners of *)
(* its bounding box in object coordinates, object.scale and                *)
(* object.matrix_world.translation.                                        *)

\* np.pi
np_pi == <<1, 1, 1>>

\* object.bound_box: the eight corners of the bounding box
bound_box(object) ==
    LET lo == object.bound_min
        hi == object.bound_max
    IN  << <<lo[1], lo[2], lo[3]>>, <<lo[1], lo[2], hi[3]>>,
           <<lo[1], hi[2], hi[3]>>, <<lo[1], hi[2], lo[3]>>,
           <<hi[1], lo[2], lo[3]>>, <<hi[1], lo[2], hi[3]>>,
           <<hi[1], hi[2], hi[3]>>, <<hi[1], hi[2], lo[3]>> >>

\* np.maximum and np.minimum of two floats: NaN values are propagated
RMax(a, b) == IF IsNaN(a) \/ IsNaN(b) THEN NaN ELSE IF RLt(a, b) THEN b ELSE a

RMin(a, b) == IF IsNaN(a) \/ IsNaN(b) THEN NaN ELSE IF RLt(b, a) THEN b ELSE a

\* np.amax(points, axis=0)[k] over the first n points
RECURSIVE AMaxUpTo(_, _, _)
AMaxUpTo(points, n, k) ==
    IF n = 1 THEN points[1][k] ELSE RMax(AMaxUpTo(points, n - 1, k), points[n][k])

RECURSIVE AMinUpTo(_, _, _)
AMinUpTo(points, n, k) ==
    IF n = 1 THEN points[1][k] ELSE RMin(AMinUpTo(points, n - 1, k), points[n][k])

np_amax(points) == [k \in 1..3 |-> AMaxUpTo(points, Len(points), k)]

np_amin(points) == [k \in 1..3 |-> AMinUpTo(points, Len(points), k)]

\* Elementwise product and quotient of numpy arrays
ArrMul(u, v) == [k \in 1..3 |-> RMul(u[k], v[k])]

ArrDiv(u, v) == [k \in 1..3 |-> RDiv(u[k], v[k])]

ArrSub(u, v) == [k \in 1..3 |-> RSub(u[k], v[k])]

\* The size of the bounding box alone, the scale left out
object_size_unscaled(object) ==
    ArrSub(np_amax(bound_box(object)), np_amin(bound_box(object)))

\* helpers.object_size: the bounding box has to be scaled
object_size(object) ==
    ArrMul(ArrSub(np_amax(bound_box(object)), np_amin(bound_box(object))),
           object.scale)

\* The operator with its properties, as execute finds it in self
Operator ==
    [max_circumference |-> max_circumference, height |-> height,
     clip_position_z |-> clip_position_z]

X_Y_MAX(self) == RDiv(self.max_circumference, np_pi)

target_size(self) == <<X_Y_MAX(self), X_Y_MAX(self), self.height>>

\* The calf is halved along the X-axis, so the bounding box is doubled there
current_size(main) == ArrMul(object_size(main), Vec(2, 1, 1))

\* np.array(cosmetics_main.scale) * target_size / current_size
fitted_scale(self, main) ==
    ArrDiv(ArrMul(main.scale, target_size(self)), current_size(main))

\* Smallest z-coordinate of the object bounding box
get_z_min(object) == RMul(np_amin(bound_box(object))[3], object.scale[3])

\* fastening_clip.matrix_world.translation after the += of the code, which
\* adds to the three components; main has its fitted scale already
clip_translation(self, main, clip) ==
    VAdd(clip.translation,
         <<R(0), R(0),
           RSub(RAdd(self.clip_position_z, get_z_min(main)), get_z_min(clip))>>)

\* cosmetics_main after _adjust_scalings_and_sizes
FittedMain(self, main) == [main EXCEPT !.scale = fitted_scale(self, main)]

\* fastening_clip after _adjust_scalings_and_sizes
MovedClip(self, main, clip) ==
    [clip EXCEPT !.translation = clip_translation(self, FittedMain(self, main), clip)]

\* _adjust_scalings_and_sizes(cosmetics_main, fastening_clip): numpy divides
\* by zero without an exception, so that the method always finishes
AdjustScalingsAndSizes ==
    /\ fit_pc = "call"
    /\ cosmetics_main' = FittedMain(Operator, cosmetics_main)
    /\ fastening_clip' = MovedClip(Operator, cosmetics_main, fastening_clip)
    /\ fit_pc' = "done"
    /\ UNCHANGED <<max_circumference, height, clip_position_z>>
    /\ UNCHANGED <<pick_vars, paint_vars, splint_vars, scene_vars>>

----------------------------------------------------------------------------
(* The inputs of _adjust_scalings_and_sizes                                *)

\* The largest extent of the bounding box of the template, per axis
MaxExtent == 2

FitObject(bound_min, extent, scale, translation_z) ==
    [bound_min |-> Vec(bound_min[1], bound_min[2], bound_min[3]),
     bound_max |-> Vec(bound_min[1] + extent[1], bound_min[2] + extent[2],
                       bound_min[3] + extent[3]),
     scale |-> scale,
     translation |-> Vec(0, 0, translation_z)]

\* object.scale of the template; a zero component makes it degenerate
MainScales ==
    { Vec(1, 1, 1), <<R(2), R(1), Rat(1, 2)>>, <<Rat(1, 2), R(3), R(2)>>, Vec(1, 0, 1) }

MainObjects ==
    { FitObject(<<0, -1, z>>, <<ex, ey, ez>>, s, t) :
        z \in {-2, 0}, ex \in 0..MaxExtent, ey \in 0..MaxExtent, ez \in 0..MaxExtent,
        s \in MainScales, t \in {0, 3} }

ClipObjects ==
    { FitObject(<<0, 0, z>>, <<1, 1, 1>>, <<R(1), R(1), sz>>, t) :
        z \in {-1, 2}, sz \in {R(1), Rat(3, 2)}, t \in {0, 3} }

----------------------------------------------------------------------------
(* ORTHOPEN_OT_set_foot_pivot._weight_paint.  Lengths are in metres.       *)

\* DEFORM_ZONE = 0.02
DEFORM_ZONE == Rat(2, 100)

\* np.clip(x, lo, hi)
np_clip(x, lo, hi) == IF RLt(x, lo) THEN lo ELSE IF RLt(hi, x) THEN hi ELSE x

\* VertexGroup.add(index, weight, type='REPLACE'); vertex indices start at 0
VertexGroupAdd(group, index, weight) ==
    [i \in (DOMAIN group) \cup index |-> IF i \in index THEN weight ELSE group[i]]

\* The weight with the clip to [0, 1] left out
VertexWeightNoClip(co, ankle) ==
    LET diff_from_ankle == VSub(co, ankle)
    IN  IF RLe(R(0), diff_from_ankle[3])
        THEN RSub(R(1), RDiv(diff_from_ankle[3], DEFORM_ZONE))
        ELSE R(1)

\* The weight of a vertex: a deformation zone with linearly decreasing weight
\* from 1 to 0 above the ankle, everything below the ankle as a solid object
VertexWeight(co, ankle) ==
    LET diff_from_ankle == VSub(co, ankle)
    IN  IF RLe(R(0), diff_from_ankle[3])
        THEN np_clip(RSub(R(1), RDiv(diff_from_ankle[3], DEFORM_ZONE)), R(0), R(1))
        ELSE R(1)

\* The loop over the first n vertices; vertex n has index n - 1
RECURSIVE PaintLoop(_, _, _, _)
PaintLoop(group, verts, ankle, n) ==
    IF n = 0 THEN group
    ELSE VertexGroupAdd(PaintLoop(group, verts, ankle, n - 1), {n - 1},
                        VertexWeight(verts[n].co, ankle))

\* The vertex group after _weight_paint(foot, ankle_point) on the vertices of
\* the active object: the default weight zero, then the loop
weight_paint(group, verts, ankle) ==
    PaintLoop(VertexGroupAdd(group, { i - 1 : i \in DOMAIN verts }, R(0)),
              verts, ankle, Len(verts))

\* The call of _weight_paint in execute: it switches to object mode, which
\* ends the edit mesh, and paints the vertex group
WeightPaint ==
    /\ paint_pc = "call"
    /\ mode' = "OBJECT"
    /\ mesh_verts' = <<>>
    /\ foot' = weight_paint(foot, vertices, ankle_point)
    /\ paint_pc' = "done"
    /\ UNCHANGED <<vertices, ankle_point>>
    /\ UNCHANGED <<objects, active_object, next_id, last_op>>
    /\ UNCHANGED <<pick_vars, fit_vars, splint_vars>>

----------------------------------------------------------------------------
(* The inputs of _weight_paint                                             *)

\* The largest number of vertices of the leg
MaxVertices == 4

\* z of a vertex, in metres
Heights ==
    { R(-1), R(0), Rat(1, 200), Rat(1, 100), Rat(2, 100), Rat(3, 100) }

\* Meshes with exactly one vertex selected
VertexLists ==
    UNION { { [i \in 1..n |-> [co |-> <<R(0), R(0), z[i]>>, select |-> (i = sel)]] :
                z \in [1..n -> Heights], sel \in 1..n } : n \in 1..MaxVertices }

----------------------------------------------------------------------------
(* ORTHOPEN_OT_foot_splint.execute and helpers.inside_polygon.  A point of *)
(* the X-Z plane is <<x, z>>.                                              *)

\* x_min = -10000
x_min == -10000

\* a == b on floats
REq(a, b) == ~IsNaN(a) /\ ~IsNaN(b) /\ ~RLt(a, b) /\ ~RLt(b, a)

\* Polygon edge k: from vertex k to the next, the last one back to the first
EdgeFrom(poly, k) == poly[k]

EdgeTo(poly, k) == poly[(k % Len(poly)) + 1]

\* The point lies on the segment from a to b, ends included
OnSegment(point, a, b) ==
    /\ REq(RMul(RSub(b[1], a[1]), RSub(point[2], a[2])),
           RMul(RSub(b[2], a[2]), RSub(point[1], a[1])))
    /\ RLe(IF RLt(a[1], b[1]) THEN a[1] ELSE b[1], point[1])
    /\ RLe(point[1], IF RLt(a[1], b[1]) THEN b[1] ELSE a[1])
    /\ RLe(IF RLt(a[2], b[2]) THEN a[2] ELSE b[2], point[2])
    /\ RLe(point[2], IF RLt(a[2], b[2]) THEN b[2] ELSE a[2])

\* The edge from a to b crosses the horizontal ray from the point to +infinity
\* in x; an edge of length zero, or a horizontal one, crosses nothing
CrossesRay(point, a, b) ==
    /\ RLt(point[2], a[2]) # RLt(point[2], b[2])
    /\ RLt(point[1],
           RAdd(a[1], RDiv(RMul(RSub(point[2], a[2]), RSub(b[1], a[1])),
                           RSub(b[2], a[2]))))

\* helpers.inside_polygon(point, polygon): the crossing-number test, with a
\* point on an edge or a vertex of the polygon counted as inside
inside_polygon(point, poly) ==
    \/ \E k \in DOMAIN poly : OnSegment(point, EdgeFrom(poly, k), EdgeTo(poly, k))
    \/ Cardinality({ k \in DOMAIN poly :
                       CrossesRay(point, EdgeFrom(poly, k), EdgeTo(poly, k)) }) % 2 = 1

\* list.sort(key=lambda point: point[1]), as CPython does it (listobject.c):
\* the key of every point is computed first, and the keys are sorted with the
\* points following them.  The key of the point at place i of the list is
\* kept as [at |-> i, less |-> the places of the keys it is less than]: the
\* only comparison of the sort is key < key on floats, which is false
\* whenever a key is nan.
Keys(points) ==
    [i \in 1..Len(points) |->
       [at |-> i,
        less |-> { j \in 1..Len(points) : RLt(points[i][2], points[j][2]) }]]

\* ISLT(p, q): the key p is less than the key q
ISLT(p, q) == q.at \in p.less

\* The runs of the keys are counted from left to right, a strictly descending
\* run is reversed, a run shorter than minrun is extended by binary
\* insertion, and the runs are merged in the order their powers give,
\* galloping when one run keeps winning.
\* MIN_GALLOP: the number of wins in a row at which a merge starts to gallop
MIN_GALLOP == 7

\* The minimal length of a run: n for less than 64 points
RECURSIVE merge_compute_minrun(_, _)
merge_compute_minrun(n, r) ==
    IF n >= 64
    THEN merge_compute_minrun(n \div 2, IF n % 2 = 1 THEN 1 ELSE r)
    ELSE n + r

\* The length of the run the list starts with: ascending when desc is FALSE
RECURSIVE count_run(_, _, _)
count_run(points, n, desc) ==
    IF n >= Len(points) THEN Len(points)
    ELSE IF ISLT(points[n + 1], points[n]) # desc THEN n
    ELSE count_run(points, n + 1, desc)

\* The list reversed
reverse_slice(points) == [i \in 1..Len(points) |-> points[Len(points) + 1 - i]]

\* The place of the pivot among sorted[l + 1 .. r], by bisection
RECURSIVE Bisect(_, _, _, _)
Bisect(sorted, pivot, l, r) ==
    IF l >= r THEN l
    ELSE LET p == l + ((r - l) \div 2)
         IN  IF ISLT(pivot, sorted[p + 1])
             THEN Bisect(sorted, pivot, l, p)
             ELSE Bisect(sorted, pivot, p + 1, r)

\* binarysort: the points behind the first start points are put in their
\* place among those before them, in turn
RECURSIVE binarysort(_, _, _)
binarysort(points, start, n) ==
    IF n = start THEN SubSeq(points, 1, start)
    ELSE LET sorted == binarysort(points, start, n - 1)
             l == Bisect(sorted, points[n], 0, n - 1)
         IN  SubSeq(sorted, 1, l) \o <<points[n]>> \o SubSeq(sorted, l + 1, n - 1)

\* The offsets <<lastofs, ofs>> at which a gallop stops.  The offsets are
\* counted from a[hint], which is a[hint + 1] of the sequence
RECURSIVE gallop_left_up(_, _, _, _, _, _)
gallop_left_up(key, a, hint, maxofs, lastofs, ofs) ==
    IF ofs < maxofs /\ ISLT(a[hint + ofs + 1], key)
    THEN gallop_left_up(key, a, hint, maxofs, ofs, 2 * ofs + 1)
    ELSE <<lastofs, ofs>>

RECURSIVE gallop_left_down(_, _, _, _, _, _)
gallop_left_down(key, a, hint, maxofs, lastofs, ofs) ==
    IF ofs < maxofs /\ ~ISLT(a[hint - ofs + 1], key)
    THEN gallop_left_down(key, a, hint, maxofs, ofs, 2 * ofs + 1)
    ELSE <<lastofs, ofs>>

RECURSIVE gallop_right_down(_, _, _, _, _, _)
gallop_right_down(key, a, hint, maxofs, lastofs, ofs) ==
    IF ofs < maxofs /\ ISLT(key, a[hint - ofs + 1])
    THEN gallop_right_down(key, a, hint, maxofs, ofs, 2 * ofs + 1)
    ELSE <<lastofs, ofs>>

RECURSIVE gallop_right_up(_, _, _, _, _, _)
gallop_right_up(key, a, hint, maxofs, lastofs, ofs) ==
    IF ofs < maxofs /\ ~ISLT(key, a[hint + ofs + 1])
    THEN gallop_right_up(key, a, hint, maxofs, ofs, 2 * ofs + 1)
    ELSE <<lastofs, ofs>>

\* The binary searches that end the gallops
RECURSIVE search_left(_, _, _, _)
search_left(key, a, lastofs, ofs) ==
    LET m == lastofs + ((ofs - lastofs) \div 2)
        below == ISLT(a[m + 1], key)
    IN  IF lastofs >= ofs THEN ofs
        ELSE search_left(key, a, IF below THEN m + 1 ELSE lastofs, IF below THEN ofs ELSE m)

RECURSIVE search_right(_, _, _, _)
search_right(key, a, lastofs, ofs) ==
    LET m == lastofs + ((ofs - lastofs) \div 2)
        above == ISLT(key, a[m + 1])
    IN  IF lastofs >= ofs THEN ofs
        ELSE search_right(key, a, IF above THEN lastofs ELSE m + 1, IF above THEN m ELSE ofs)

\* gallop_left: the number k of the first elements of the run a of length n
\* with a[k - 1] < key <= a[k], searched from the hint
gallop_left(key, a, n, hint) ==
    LET Clip(ofs, maxofs) == IF ofs > maxofs THEN maxofs ELSE ofs
        Up(stop) ==
            search_left(key, a, stop[1] + hint + 1, Clip(stop[2], n - hint) + hint)
        Down(stop) ==
            search_left(key, a, hint - Clip(stop[2], hint + 1) + 1, hint - stop[1])
    IN  IF ISLT(a[hint + 1], key)
        THEN Up(gallop_left_up(key, a, hint, n - hint, 0, 1))
        ELSE Down(gallop_left_down(key, a, hint, hint + 1, 0, 1))

\* gallop_right: the same with a[k - 1] <= key < a[k]
gallop_right(key, a, n, hint) ==
    LET Clip(ofs, maxofs) == IF ofs > maxofs THEN maxofs ELSE ofs
        Down(stop) ==
            search_right(key, a, hint - Clip(stop[2], hint + 1) + 1, hint - stop[1])
        Up(stop) ==
            search_right(key, a, stop[1] + hint + 1, Clip(stop[2], n - hint) + hint)
    IN  IF ISLT(key, a[hint + 1])
        THEN Down(gallop_right_down(key, a, hint, hint + 1, 0, 1))
        ELSE Up(gallop_right_up(key, a, hint, n - hint, 0, 1))

\* The first k elements of a list, and the list without them
Front(a, k) == SubSeq(a, 1, k)

Behind(a, k) == SubSeq(a, k + 1, Len(a))

\* merge_lo and merge_hi as loops over a record: the runs A and B that are
\* left to merge, dest that is merged already, min_gallop, the wins in a row
\* acount and bcount of the two runs, and whether the loop gallops; at the
\* end, run is the merged run
MergeLoop(galloping, dest, A, B, min_gallop, acount, bcount) ==
    [galloping |-> galloping, dest |-> dest, A |-> A, B |-> B,
     min_gallop |-> min_gallop, acount |-> acount, bcount |-> bcount,
     done |-> FALSE, run |-> <<>>]

MergeDone(run, min_gallop) ==
    [galloping |-> FALSE, dest |-> <<>>, A |-> <<>>, B |-> <<>>,
     min_gallop |-> min_gallop, acount |-> 0, bcount |-> 0,
     done |-> TRUE, run |-> run]

\* merge_lo, one round of its loop: the runs are merged from the left.  One
\* element is taken, from B when it is less than the first of A; or, when
\* galloping, min_gallop is lowered by one (down to 1), acount elements of A
\* are taken, one of B, bcount elements of B, and one of A
merge_lo_step(s) ==
    LET dest == s.dest
        A == s.A
        B == s.B
        min_gallop == IF s.galloping /\ s.min_gallop > 1
                      THEN s.min_gallop - 1 ELSE s.min_gallop
        TakeB ==
            LET d == Append(dest, B[1])
                b == Tail(B)
            IN  IF b = <<>> THEN MergeDone(d \o A, min_gallop)
                ELSE IF s.bcount + 1 >= min_gallop
                     THEN MergeLoop(TRUE, d, A, b, min_gallop + 1, 0, 0)
                ELSE MergeLoop(FALSE, d, A, b, min_gallop, 0, s.bcount + 1)
        TakeA ==
            LET d == Append(dest, A[1])
                a == Tail(A)
            IN  IF Len(a) = 1 THEN MergeDone(d \o B \o a, min_gallop)
                ELSE IF s.acount + 1 >= min_gallop
                     THEN MergeLoop(TRUE, d, a, B, min_gallop + 1, 0, 0)
                ELSE MergeLoop(FALSE, d, a, B, min_gallop, s.acount + 1, 0)
        AfterB(acount, bcount, d2, a1, b2) ==
            LET d3 == d2 \o Front(b2, bcount)
                b3 == Behind(b2, bcount)
                d4 == Append(d3, a1[1])
                a4 == Tail(a1)
            IN  IF b3 = <<>> THEN MergeDone(d3 \o a1, min_gallop)
                ELSE IF Len(a4) = 1 THEN MergeDone(d4 \o b3 \o a4, min_gallop)
                ELSE IF acount >= MIN_GALLOP \/ bcount >= MIN_GALLOP
                     THEN MergeLoop(TRUE, d4, a4, b3, min_gallop, 0, 0)
                ELSE MergeLoop(FALSE, d4, a4, b3, min_gallop + 1, 0, 0)
        AfterA(acount) ==
            LET d1 == dest \o Front(A, acount)
                a1 == Behind(A, acount)
                d2 == Append(d1, B[1])
                b2 == Tail(B)
            IN  IF acount > 0 /\ Len(a1) = 1 THEN MergeDone(d1 \o B \o a1, min_gallop)
                ELSE IF acount > 0 /\ Len(a1) = 0 THEN MergeDone(d1 \o B, min_gallop)
                ELSE IF b2 = <<>> THEN MergeDone(d2 \o a1, min_gallop)
                ELSE AfterB(acount, gallop_left(a1[1], b2, Len(b2), 0), d2, a1, b2)
    IN  IF s.galloping THEN AfterA(gallop_right(B[1], A, Len(A), 0))
        ELSE IF ISLT(B[1], A[1]) THEN TakeB
        ELSE TakeA

\* merge_hi, one round of its loop: the same from the right
merge_hi_step(s) ==
    LET dest == s.dest
        A == s.A
        B == s.B
        min_gallop == IF s.galloping /\ s.min_gallop > 1
                      THEN s.min_gallop - 1 ELSE s.min_gallop
        TakeA ==
            LET d == <<A[Len(A)]>> \o dest
                a == Front(A, Len(A) - 1)
            IN  IF a = <<>> THEN MergeDone(B \o d, min_gallop)
                ELSE IF s.acount + 1 >= min_gallop
                     THEN MergeLoop(TRUE, d, a, B, min_gallop + 1, 0, 0)
                ELSE MergeLoop(FALSE, d, a, B, min_gallop, s.acount + 1, 0)
        TakeB ==
            LET d == <<B[Len(B)]>> \o dest
                b == Front(B, Len(B) - 1)
            IN  IF Len(b) = 1 THEN MergeDone(b \o A \o d, min_gallop)
                ELSE IF s.bcount + 1 >= min_gallop
                     THEN MergeLoop(TRUE, d, A, b, min_gallop + 1, 0, 0)
                ELSE MergeLoop(FALSE, d, A, b, min_gallop, 0, s.bcount + 1)
        AfterB(acount, bcount, d2, a1, b2) ==
            LET d3 == Behind(b2, Len(b2) - bcount) \o d2
                b3 == Front(b2, Len(b2) - bcount)
                d4 == <<a1[Len(a1)]>> \o d3
                a4 == Front(a1, Len(a1) - 1)
            IN  IF bcount > 0 /\ Len(b3) = 1 THEN MergeDone(b3 \o a1 \o d3, min_gallop)
                ELSE IF bcount > 0 /\ Len(b3) = 0 THEN MergeDone(a1 \o d3, min_gallop)
                ELSE IF a4 = <<>> THEN MergeDone(b3 \o d4, min_gallop)
                ELSE IF acount >= MIN_GALLOP \/ bcount >= MIN_GALLOP
                     THEN MergeLoop(TRUE, d4, a4, b3, min_gallop, 0, 0)
                ELSE MergeLoop(FALSE, d4, a4, b3, min_gallop + 1, 0, 0)
        AfterA(acount) ==
            LET d1 == Behind(A, Len(A) - acount) \o dest
                a1 == Front(A, Len(A) - acount)
                d2 == <<B[Len(B)]>> \o d1
                b2 == Front(B, Len(B) - 1)
            IN  IF a1 = <<>> THEN MergeDone(B \o d1, min_gallop)
                ELSE IF Len(b2) = 1 THEN MergeDone(b2 \o a1 \o d2, min_gallop)
                ELSE AfterB(acount,
                            Len(b2) - gallop_left(a1[Len(a1)], b2, Len(b2), Len(b2) - 1),
                            d2, a1, b2)
    IN  IF s.galloping
        THEN AfterA(Len(A) - gallop_right(B[Len(B)], A, Len(A), Len(A) - 1))
        ELSE IF ISLT(B[Len(B)], A[Len(A)]) THEN TakeA
        ELSE TakeB

\* The rounds of a merge, until it is done
RECURSIVE merge_loop(_, _)
merge_loop(s, lo) ==
    IF s.done THEN s
    ELSE merge_loop(IF lo THEN merge_lo_step(s) ELSE merge_hi_step(s), lo)

\* merge_lo(A, B): the first element of B is less than the first of A and
\* goes first.  merge_hi(A, B): the last of A goes last
merge_lo(A, B, min_gallop) ==
    IF Len(B) = 1 THEN MergeDone(B \o A, min_gallop)
    ELSE IF Len(A) = 1 THEN MergeDone(B \o A, min_gallop)
    ELSE merge_loop(MergeLoop(FALSE, <<B[1]>>, A, Tail(B), min_gallop, 0, 0), TRUE)

merge_hi(A, B, min_gallop) ==
    IF Len(A) = 1 THEN MergeDone(B \o A, min_gallop)
    ELSE IF Len(B) = 1 THEN MergeDone(B \o A, min_gallop)
    ELSE merge_loop(MergeLoop(FALSE, <<A[Len(A)]>>, Front(A, Len(A) - 1), B,
                              min_gallop, 0, 0), FALSE)

\* merge_at: the runs i and i + 1 of the pending runs are merged.  ms is the
\* MergeState with the list: [a, pending, min_gallop]; a pending run is
\* [base, len, power], base counted from 0.  The elements of the first run
\* that are in place already, and those of the second, are left alone
merge_at(ms, i) ==
    LET first == ms.pending[i]
        second == ms.pending[i + 1]
        ssa == SubSeq(ms.a, first.base + 1, first.base + first.len)
        ssb == SubSeq(ms.a, second.base + 1, second.base + second.len)
        done == [ms EXCEPT !.pending = Front(ms.pending, i - 1)
                              \o <<[first EXCEPT !.len = first.len + second.len]>>
                              \o Behind(ms.pending, i + 1)]
        Put(k, nb, merged) ==
            [done EXCEPT !.a = Front(ms.a, first.base + k) \o merged.run
                                 \o Behind(ms.a, second.base + nb),
                         !.min_gallop = merged.min_gallop]
        \* the first nb elements of the second run are merged
        WithB(k, nb) ==
            IF nb <= 0 THEN done
            ELSE IF first.len - k <= nb
                 THEN Put(k, nb, merge_lo(Behind(ssa, k), Front(ssb, nb), ms.min_gallop))
            ELSE Put(k, nb, merge_hi(Behind(ssa, k), Front(ssb, nb), ms.min_gallop))
        \* the first k elements of the first run are in place
        WithA(k) ==
            IF k = first.len THEN done
            ELSE WithB(k, gallop_left(ssa[first.len], ssb, second.len, second.len - 1))
    IN  WithA(gallop_right(ssb[1], ssa, first.len, 0))

\* powerloop: the power of the boundary between two runs, from their
\* midpoints a / 2 and b / 2 in a list of n elements
RECURSIVE powerloop(_, _, _, _)
powerloop(a, b, n, result) ==
    LET over == IF a >= n THEN n ELSE 0
    IN  IF a < n /\ b >= n THEN result + 1
        ELSE powerloop(2 * (a - over), 2 * (b - over), n, result + 1)

\* The pending runs of a higher power than the new boundary are merged
RECURSIVE merge_higher_powers(_, _)
merge_higher_powers(ms, power) ==
    IF Len(ms.pending) > 1 /\ ms.pending[Len(ms.pending) - 1].power > power
    THEN merge_higher_powers(merge_at(ms, Len(ms.pending) - 1), power)
    ELSE ms

\* found_new_run: a run of n2 elements follows the pending runs
found_new_run(ms, n2) ==
    LET top == ms.pending[Len(ms.pending)]
        SetPower(after, power) ==
            [after EXCEPT !.pending[Len(after.pending)].power = power]
        WithPower(power) == SetPower(merge_higher_powers(ms, power), power)
    IN  IF ms.pending = <<>> THEN ms
        ELSE WithPower(powerloop(2 * top.base + top.len,
                                 2 * top.base + 2 * top.len + n2, Len(ms.a), 0))

\* merge_force_collapse: the pending runs are merged until one is left
RECURSIVE merge_force_collapse(_)
merge_force_collapse(ms) ==
    LET n == Len(ms.pending) - 1
    IN  IF Len(ms.pending) <= 1 THEN ms
        ELSE merge_force_collapse(
                 merge_at(ms, IF n > 1 /\ ms.pending[n - 1].len < ms.pending[n + 1].len
                              THEN n - 1 ELSE n))

\* The loop of list.sort over the runs: lo elements are in pending runs
RECURSIVE sort_runs(_, _, _)
sort_runs(ms, lo, minrun) ==
    LET rest == Behind(ms.a, lo)
        nremaining == Len(ms.a) - lo
        force == IF nremaining <= minrun THEN nremaining ELSE minrun
        \* the run of n elements, sorted, is pushed on the pending runs
        Push(found, n) ==
            sort_runs([found EXCEPT
                         !.pending = Append(@, [base |-> lo, len |-> n, power |-> 0])],
                      lo + n, minrun)
        Found(sorted, n) ==
            Push(found_new_run(
                    [ms EXCEPT !.a = Front(ms.a, lo) \o sorted \o Behind(rest, n)], n), n)
        \* the run is reversed when it is descending and extended when short
        WithRun(desc, run) ==
            LET head == Front(rest, run)
                lead == IF desc THEN reverse_slice(head) ELSE head
            IN  IF run < minrun
                THEN Found(binarysort(lead \o Behind(rest, run), run, force), force)
                ELSE Found(lead, run)
        WithDesc(desc) == WithRun(desc, count_run(rest, 2, desc))
    IN  IF lo = Len(ms.a) THEN ms
        ELSE WithDesc(nremaining > 1 /\ ISLT(rest[2], rest[1]))

\* The keys of a list of two or more, sorted
listsort(keys) ==
    merge_force_collapse(
        sort_runs([a |-> keys, pending |-> <<>>, min_gallop |-> MIN_GALLOP],
                  0, merge_compute_minrun(Len(keys), 0))).a

\* The points in the order of their sorted keys
Values(points, keys) == [k \in 1..Len(keys) |-> points[keys[k].at]]

SortByZ(points) ==
    IF Len(points) < 2 THEN points
    ELSE Values(points, listsort(Keys(points)))

\* [(v.co.x, v.co.z) for v in mesh.verts if v.select], of the first n vertices
RECURSIVE SelectedPoints(_, _)
SelectedPoints(verts, n) ==
    IF n = 0 THEN <<>>
    ELSE IF verts[n].select
         THEN Append(SelectedPoints(verts, n - 1), <<verts[n].co[1], verts[n].co[3]>>)
         ELSE SelectedPoints(verts, n - 1)

\* selected_verts after the sort
SortedSelection(verts) == SortByZ(SelectedPoints(verts, Len(verts)))

\* The two vertices added that go around the left side of the foot (heel and
\* backwards): the polygon that outlines the vertices to be selected
OutlinePolygon(sorted) ==
    <<<<R(x_min), sorted[1][2]>>>> \o sorted \o <<<<R(x_min), sorted[Len(sorted)][2]>>>>

\* Mesh.total_vert_sel of the data of an object: the selected vertices of its
\* edit mesh, and 0 for a mesh that is not in edit mode
total_vert_sel(o) ==
    IF o = active_object /\ mode = "EDIT"
    THEN Cardinality({ i \in DOMAIN mesh_verts : mesh_verts[i].select })
    ELSE 0

\* ORTHOPEN_OT_foot_splint: poll, then execute.  Object mode and back to edit
\* mode; every vertex of the mesh inside the outline is selected, the others
\* are deselected
FootSplintExecute ==
    /\ active_object # NoId
    /\ objects[active_object].type = "MESH"
    /\ total_vert_sel(active_object) > 2
    /\ LET sorted == SortedSelection(mesh_verts)
           outline == OutlinePolygon(sorted)
       IN  /\ selected_verts' = sorted
           /\ polygon' = outline
           /\ mesh_verts' =
                 [i \in DOMAIN mesh_verts |->
                    [mesh_verts[i] EXCEPT
                       !.select = inside_polygon(<<mesh_verts[i].co[1], mesh_verts[i].co[3]>>,
                                                 outline)]]
    /\ splint_pc' = "done"
    /\ mode' = "EDIT"
    /\ last_op' = [idname |-> "foot_splint", result |-> "FINISHED"]
    /\ UNCHANGED <<objects, active_object, next_id>>
    /\ UNCHANGED <<pick_vars, fit_vars, paint_vars>>

----------------------------------------------------------------------------
(* The operators on the scene.  An object of bpy.data.objects is            *)
(*   [type, keys, data, modifiers, parent, vertex_groups]:                  *)
(* keys are the names of its custom properties, data numbers its mesh data  *)
(* block, modifiers is the stack of [name, type, object], parent an object  *)
(* id or NoId and vertex_groups the names of its vertex groups.             *)

\* If a bpy.types.Object contains this key, we know it is a scan we imported
KEY_IMPORTED_SCAN == "imported_3d_scan"

\* Key to identify armature managed by this add-on
KEY_MANAGED_ARMATURE == "managed_armature"

\* Used to identify anything auto-generated by name
FOOT_AUTOGEN_ID == "foot_auto_gen"

\* The most objects made in a session
MaxObjects == 4

\* The most mesh data blocks made for one object
MaxMeshes == 1

\* FOOT_AUTOGEN_ID in name
IsAutogenName(name) ==
    \E i \in 1..(Len(name) - Len(FOOT_AUTOGEN_ID) + 1) :
        SubSeq(name, i, i + Len(FOOT_AUTOGEN_ID) - 1) = FOOT_AUTOGEN_ID

NewMesh(keys) ==
    [type |-> "MESH", keys |-> keys, data |-> 0, modifiers |-> <<>>,
     parent |-> NoId, vertex_groups |-> <<>>]

NewArmature ==
    [type |-> "ARMATURE", keys |-> {KEY_MANAGED_ARMATURE}, data |-> 0, modifiers |-> <<>>,
     parent |-> NoId, vertex_groups |-> <<>>]

\* objs with the object id added
AddObject(objs, id, object) ==
    [o \in (DOMAIN objs) \cup {id} |-> IF o = id THEN object ELSE objs[o]]

\* modifier.object of a modifier that has one, None otherwise
ModifierObject(modifier) == modifier.object

\* bpy.data.objects.remove(id, do_unlink=True): the object is gone and every
\* reference to it is cleared
RemoveObject(objs, id) ==
    [o \in (DOMAIN objs) \ {id} |->
        [objs[o] EXCEPT
           !.parent = IF @ = id THEN NoId ELSE @,
           !.modifiers = [k \in DOMAIN @ |->
                            [@[k] EXCEPT !.object = IF @ = id THEN NoId ELSE @]]]]

\* _KEY_MANAGED_ARMATURE in object.keys(), for the object an id refers to
IsManaged(objs, id) ==
    id # NoId /\ id \in DOMAIN objs /\ KEY_MANAGED_ARMATURE \in objs[id].keys

\* Only the first loop of _clear_managed_armature: the modifiers tied to a
\* managed armature are removed and the armature itself is kept
clear_managed_armature_modifiers_only(objs, id) ==
    LET Keeps(modifier) == ~IsManaged(objs, ModifierObject(modifier))
    IN  [objs EXCEPT ![id].modifiers = SelectSeq(@, Keeps)]

\* _clear_managed_armature(object): the modifiers tied to a managed armature
\* are removed, then the armature itself when it is the parent.  The iterator
\* of a bpy collection is advanced before the body of the loop runs, so that
\* removing the current modifier leaves the iteration on the next one: every
\* modifier is visited
clear_managed_armature(objs, id) ==
    LET Keeps(modifier) == ~IsManaged(objs, ModifierObject(modifier))
        cleared == [objs EXCEPT ![id].modifiers = SelectSeq(@, Keeps)]
    IN  IF cleared[id].parent # NoId /\ IsManaged(cleared, cleared[id].parent)
        THEN RemoveObject(cleared, cleared[id].parent)
        ELSE cleared

\* The objects with the key of an imported scan
ImportedScans(objs) == { o \in DOMAIN objs : KEY_IMPORTED_SCAN \in objs[o].keys }

\* Targets that are the imported scans whatever the active object is
objects_to_permanent_scans_only(objs, active) == ImportedScans(objs)

\* objects_to_permanent of ORTHOPEN_OT_permanent_modifiers.execute
objects_to_permanent(objs, active) ==
    IF active = NoId \/ objs[active].type # "MESH"
    THEN ImportedScans(objs)
    ELSE {active}

\* The body of the loop over objects_to_permanent, for one object: the mesh
\* is overwritten with the mesh from the modifiers, the managed armature is
\* cleared and so are the modifiers
MakePermanent(objs, id) ==
    LET remeshed == [objs EXCEPT ![id].data = @ + 1]
        cleared == clear_managed_armature(remeshed, id)
    IN  [cleared EXCEPT ![id].modifiers = <<>>]

\* The loop over the objects of the set todo
RECURSIVE MakeAllPermanent(_, _)
MakeAllPermanent(objs, todo) ==
    IF todo = {} THEN objs
    ELSE LET id == CHOOSE o \in todo : \A p \in todo : o <= p
         IN  MakeAllPermanent(MakePermanent(objs, id), todo \ {id})

\* The active object after an operator ran: None when it has been removed
StillActive(objs, active) == IF active \in DOMAIN objs THEN active ELSE NoId

\* ORTHOPEN_OT_permanent_modifiers: poll, then execute
PermanentModifiers ==
    /\ active_object # NoId /\ mode # "EDIT"
    /\ LET todo == objects_to_permanent(objects, active_object)
       IN  IF todo = {}
           THEN /\ last_op' = [idname |-> "permanent_modifiers", result |-> "CANCELLED"]
                /\ UNCHANGED <<objects, active_object, mode>>
           ELSE /\ \A o \in todo : objects[o].data < MaxMeshes
                /\ objects' = MakeAllPermanent(objects, todo)
                /\ active_object' = StillActive(objects', active_object)
                /\ mode' = IF active_object' = NoId THEN "OBJECT" ELSE mode
                /\ last_op' = [idname |-> "permanent_modifiers", result |-> "FINISHED"]
    /\ UNCHANGED <<mesh_verts, next_id>>
    /\ UNCHANGED <<pick_vars, fit_vars, paint_vars, splint_vars>>

\* for object in imported_objects: object[_KEY_IMPORTED_SCAN] = True
TagImported(objs, imported) ==
    [o \in DOMAIN objs |->
        IF o \in imported THEN [objs[o] EXCEPT !.keys = @ \cup {KEY_IMPORTED_SCAN}]
        ELSE objs[o]]

\* ORTHOPEN_OT_import_file.execute: bpy.ops.import_mesh.stl switches to
\* object mode, adds a mesh to the scene and makes it the active object; the
\* objects that were not in the scene before are tagged
ImportFile ==
    /\ next_id <= MaxObjects
    /\ LET old_objects == DOMAIN objects
           scene == AddObject(objects, next_id, NewMesh({}))
       IN  objects' = TagImported(scene, (DOMAIN scene) \ old_objects)
    /\ active_object' = next_id
    /\ mode' = "OBJECT"
    /\ mesh_verts' = <<>>
    /\ next_id' = next_id + 1
    /\ last_op' = [idname |-> "import_file", result |-> "FINISHED"]
    /\ UNCHANGED <<pick_vars, fit_vars, paint_vars, splint_vars>>

\* The defaults of the properties of ORTHOPEN_OT_leg_prosthesis_generate
PropertyDefaults ==
    [max_circumference |-> Rat(35, 100), height |-> Rat(2, 10),
     clip_position_z |-> Rat(1, 10)]

\* What the user enters in the dialog of the operator
PropertySets ==
    { PropertyDefaults,
      [max_circumference |-> Rat(22, 100), height |-> Rat(7, 100),
       clip_position_z |-> R(0)] }

\* The objects "cosmetics_main" and "clip" of assets/leg_prosthesis.blend
AssetMain == FitObject(<<0, -1, -2>>, <<1, 2, 2>>, Vec(1, 1, 1), 0)

AssetClip == FitObject(<<0, 0, -1>>, <<1, 1, 1>>, Vec(1, 1, 1), 0)

\* ORTHOPEN_OT_leg_prosthesis_generate.invoke: the dialog of the properties
\* is opened and nothing else changes
LegProsthesisInvoke ==
    /\ last_op' = [idname |-> "leg_prosthesis_generate", result |-> "RUNNING_MODAL"]
    /\ UNCHANGED <<objects, active_object, mode, mesh_verts, next_id>>
    /\ UNCHANGED <<pick_vars, fit_vars, paint_vars, splint_vars>>

\* The dialog is open: after invoke, until the operator is executed or
\* another step is taken
DialogOpen ==
    last_op = [idname |-> "leg_prosthesis_generate", result |-> "RUNNING_MODAL"]

\* The user closes the dialog without confirming: execute is not called and
\* what was entered in the dialog is dropped
UserCancelDialog ==
    /\ DialogOpen
    /\ last_op' = [idname |-> "leg_prosthesis_generate", result |-> "CANCELLED"]
    /\ UNCHANGED <<objects, active_object, mode, mesh_verts, next_id>>
    /\ UNCHANGED <<pick_vars, fit_vars, paint_vars, splint_vars>>

\* ORTHOPEN_OT_leg_prosthesis_generate.execute, with the properties of the
\* operator self (the values in the dialog when it is confirmed, changed by the
\* user or not): cosmetics_main and the clip of the assets file are linked to
\* the scene, scaled and placed.  The bpy.ops.object.select_all that follows
\* is refused when the active object is not in object mode: RuntimeError,
\* with the parts left in the scene
LegProsthesisGenerate ==
    /\ next_id + 1 <= MaxObjects
    /\ objects' = AddObject(AddObject(objects, next_id, NewMesh({})),
                            next_id + 1, NewMesh({}))
    /\ next_id' = next_id + 2
    /\ \E self \in PropertySets :
          /\ max_circumference' = self.max_circumference
          /\ height' = self.height
          /\ clip_position_z' = self.clip_position_z
          /\ cosmetics_main' = FittedMain(self, AssetMain)
          /\ fastening_clip' = MovedClip(self, AssetMain, AssetClip)
    /\ fit_pc' = "done"
    /\ last_op' = [idname |-> "leg_prosthesis_generate",
                   result |-> IF mode = "OBJECT" THEN "FINISHED" ELSE "RuntimeError"]
    /\ UNCHANGED <<active_object, mode, mesh_verts>>
    /\ UNCHANGED <<pick_vars, paint_vars, splint_vars>>

\* The loops that remove what was generated before: every element whose name
\* has the id in it
WithoutAutogen(named) ==
    LET Keeps(e) == ~IsAutogenName(e.name) IN SelectSeq(named, Keeps)

\* The vertex groups when none is removed
WithAutogenNames(names) == names

WithoutAutogenNames(names) ==
    LET Keeps(name) == ~IsAutogenName(name) IN SelectSeq(names, Keeps)

\* [v.co for v in leg.data.vertices if v.select], of the first n vertices
RECURSIVE SelectedCo(_, _)
SelectedCo(verts, n) ==
    IF n = 0 THEN <<>>
    ELSE IF verts[n].select THEN Append(SelectedCo(verts, n - 1), verts[n].co)
    ELSE SelectedCo(verts, n - 1)

\* ORTHOPEN_OT_set_foot_pivot: poll, then execute on the active leg.  The
\* vertex group is made and painted around the selected vertex; the armature
\* made by _add_armature is tagged, becomes the parent of the leg (with an
\* armature modifier on the leg) and the active object, in pose mode
SetFootPivot ==
    /\ active_object # NoId
    /\ objects[active_object].type = "MESH"
    /\ total_vert_sel(active_object) = 1
    /\ next_id <= MaxObjects
    /\ LET leg == active_object
           armature == next_id
           grouped == [objects EXCEPT
                         ![leg].vertex_groups =
                             Append(WithoutAutogenNames(@), FOOT_AUTOGEN_ID)]
           cleared == clear_managed_armature(grouped, leg)
           added == AddObject(cleared, armature, NewArmature)
           parented == [added EXCEPT
                          ![leg].parent = armature,
                          ![leg].modifiers =
                              Append(@, [name |-> "Armature", type |-> "ARMATURE",
                                         object |-> armature])]
       IN  objects' = [parented EXCEPT
                         ![leg].modifiers =
                             Append(WithoutAutogen(@),
                                    [name |-> FOOT_AUTOGEN_ID, type |-> "CORRECTIVE_SMOOTH",
                                     object |-> NoId])]
    /\ LET selected_verts_co == SelectedCo(mesh_verts, Len(mesh_verts))
       IN  /\ vertices' = mesh_verts
           /\ ankle_point' = selected_verts_co[1]
           /\ foot' = weight_paint(<<>>, mesh_verts, selected_verts_co[1])
    /\ paint_pc' = "done"
    /\ active_object' = next_id
    /\ mode' = "POSE"
    /\ mesh_verts' = <<>>
    /\ next_id' = next_id + 1
    /\ last_op' = [idname |-> "set_foot_pivot", result |-> "FINISHED"]
    /\ UNCHANGED <<pick_vars, fit_vars, splint_vars>>

\* The user makes an object the active one, in object mode
UserSetActive(o) ==
    /\ active_object' = o
    /\ mode' = "OBJECT"
    /\ mesh_verts' = <<>>
    /\ last_op' = [idname |-> "user", result |-> None]
    /\ UNCHANGED <<objects, next_id>>
    /\ UNCHANGED <<pick_vars, fit_vars, paint_vars, splint_vars>>

\* The vertices of a scanned leg
SceneCo == << <<R(0), R(0), R(0)>>, <<R(1), R(0), Rat(1, 100)>>, <<R(0), R(0), Rat(3, 100)>> >>

\* What the user selects: one vertex as the pivot, or all as an outline
SceneSelections == { {1}, {2}, {3}, {1, 2, 3} }

\* The user enters edit mode on the active mesh and selects vertices
UserSelectVertices ==
    /\ active_object # NoId
    /\ objects[active_object].type = "MESH"
    /\ \E sel \in SceneSelections :
          mesh_verts' = [i \in DOMAIN SceneCo |-> [co |-> SceneCo[i], select |-> i \in sel]]
    /\ mode' = "EDIT"
    /\ last_op' = [idname |-> "user", result |-> None]
    /\ UNCHANGED <<objects, active_object, next_id>>
    /\ UNCHANGED <<pick_vars, fit_vars, paint_vars, splint_vars>>

----------------------------------------------------------------------------
(* Specifications: one per operator, each from the inputs of its call.     *)

\* The operator is not part of the run
PickIdle ==
    /\ ray_origin_world = Vec(0, 0, 0)
    /\ view_vector = Vec(0, 0, 1)
    /\ object_instances = <<>>
    /\ best_obj_data = NoResult
    /\ pick_pc = "idle"

FitIdle ==
    /\ cosmetics_main = None
    /\ fastening_clip = None
    /\ max_circumference = PropertyDefaults.max_circumference
    /\ height = PropertyDefaults.height
    /\ clip_position_z = PropertyDefaults.clip_position_z
    /\ fit_pc = "idle"

PaintIdle ==
    /\ vertices = <<>>
    /\ ankle_point = Vec(0, 0, 0)
    /\ foot = <<>>
    /\ paint_pc = "idle"

SplintIdle ==
    /\ selected_verts = <<>>
    /\ polygon = <<>>
    /\ splint_pc = "idle"

\* No object yet
SceneIdle ==
    /\ objects = <<>>
    /\ active_object = NoId
    /\ mode = "OBJECT"
    /\ mesh_verts = <<>>
    /\ next_id = 1
    /\ last_op = [idname |-> None, result |-> None]

PickInit ==
    /\ \E ray \in Rays : ray_origin_world = ray[1] /\ view_vector = ray[2]
    /\ object_instances \in InstanceLists
    /\ best_obj_data = NoResult
    /\ pick_pc = "call"
    /\ FitIdle
    /\ PaintIdle
    /\ SplintIdle
    /\ SceneIdle

PickNext == MouseRayCast

PickSpec == PickInit /\ [][PickNext]_vars


FitInit ==
    /\ cosmetics_main \in MainObjects
    /\ fastening_clip \in ClipObjects
    /\ max_circumference \in {R(35), R(22)}
    /\ height \in {R(20), R(7)}
    /\ clip_position_z \in {R(10), R(0)}
    /\ fit_pc = "call"
    /\ PickIdle
    /\ PaintIdle
    /\ SplintIdle
    /\ SceneIdle

FitNext == AdjustScalingsAndSizes

FitSpec == FitInit /\ [][FitNext]_vars

\* An imported scan is the active object, in edit mode
ScanInEditMode ==
    /\ objects = AddObject(<<>>, 1, NewMesh({KEY_IMPORTED_SCAN}))
    /\ active_object = 1
    /\ mode = "EDIT"
    /\ next_id = 2
    /\ last_op = [idname |-> "user", result |-> None]

\* ORTHOPEN_OT_set_foot_pivot.execute where it calls _weight_paint.  poll:
\* exactly one vertex of the active mesh is selected; execute has copied it
\* to ankle_point and made the vertex group foot, which starts empty
PaintInit ==
    /\ vertices \in VertexLists
    /\ \E i \in DOMAIN vertices : vertices[i].select /\ ankle_point = vertices[i].co
    /\ foot = <<>>
    /\ paint_pc = "call"
    /\ objects = AddObject(<<>>, 1, [NewMesh({KEY_IMPORTED_SCAN}) EXCEPT
                                       !.vertex_groups = <<FOOT_AUTOGEN_ID>>])
    /\ active_object = 1
    /\ mode = "EDIT"
    /\ mesh_verts = vertices
    /\ next_id = 2
    /\ last_op = [idname |-> "user", result |-> None]
    /\ PickIdle
    /\ FitIdle
    /\ SplintIdle

PaintNext == WeightPaint

PaintSpec == PaintInit /\ [][PaintNext]_vars

\* A session: a scene without objects, on which the user runs the operators
SceneInit ==
    /\ SceneIdle
    /\ PickIdle
    /\ FitIdle
    /\ PaintIdle
    /\ SplintIdle

SceneNext ==
    \/ ImportFile
    \/ FootSplintExecute
    \/ LegProsthesisInvoke
    \/ UserCancelDialog
    \/ LegProsthesisGenerate
    \/ SetFootPivot
    \/ PermanentModifiers
    \/ \E o \in DOMAIN objects : UserSetActive(o)
    \/ UserSelectVertices

SceneSpec == SceneInit /\ [][SceneNext]_vars
----------------------------------------------------------------------------
(* Properties of mouse_ray_cast                                            *)

IsMesh(i) == InstanceObj(object_instances[i]).type = "MESH"

\* No mesh among the object instances has a matrix without an inverse
AllMeshInvertible ==
    \A i \in DOMAIN object_instances :
        IsMesh(i) => Invertible(InstanceMatrix(object_instances[i]))

\* The ray meets the mesh of object instance i
Intersected(i) ==
    /\ IsMesh(i)
    /\ Invertible(InstanceMatrix(object_instances[i]))
    /\ InstanceCast(object_instances[i]).hit

\* The result that reports the intersection with object instance i
HitData(i) ==
    LET cast == InstanceCast(object_instances[i])
    IN  [object |-> InstanceObj(object_instances[i]).name,
         intersection_point |-> cast.location,
         face_normal |-> cast.normal,
         face_index |-> cast.index]

\* Squared distance in the object's coordinates, as the code compares it
ObjDistSq(i) == InstanceLengthSquared(object_instances[i])

\* Squared distance from the ray origin to the intersection, both in the world
WorldDistSq(i) ==
    length_squared(VSub(MatMul(InstanceMatrix(object_instances[i]),
                               InstanceCast(object_instances[i]).location),
                        ray_origin_world))

\* C1: when two or more candidates are intersected, the returned hit is the
\* one of a candidate whose intersection point, taken back to the world, is
\* nearest to the ray origin of the world.
C1_NearestInWorld ==
    (pick_pc = "returned"
       /\ \E i, j \in DOMAIN object_instances : i # j /\ Intersected(i) /\ Intersected(j))
    => \E i \in DOMAIN object_instances :
          /\ Intersected(i)
          /\ best_obj_data = HitData(i)
          /\ \A j \in DOMAIN object_instances :
                Intersected(j) => RLe(WorldDistSq(i), WorldDistSq(j))

\* The first of the object instances in S with the least distance in object
\* coordinates
FirstNearest(S) ==
    CHOOSE i \in S :
        /\ \A j \in S : RLe(ObjDistSq(i), ObjDistSq(j))
        /\ \A j \in S : (j < i) => RLt(ObjDistSq(i), ObjDistSq(j))

\* The mesh instances with an invertible matrix that the ray meets
Remaining == { i \in DOMAIN object_instances : Intersected(i) }

\* C2: with exactly one mesh candidate whose matrix has no inverse, the call
\* does not fail: it returns the nearest hit among the other candidates, or
\* no hit if the ray meets none of them.
C2_SkipsNonInvertible ==
    (pick_pc # "call"
       /\ Cardinality({ i \in DOMAIN object_instances :
                          IsMesh(i) /\ ~Invertible(InstanceMatrix(object_instances[i])) }) = 1)
    => /\ pick_pc = "returned"
       /\ best_obj_data = IF Remaining = {} THEN NoResult
                          ELSE HitData(FirstNearest(Remaining))

\* C8: when candidates are intersected, the result is the first one, in
\* iteration order, among those of the least squared distance: a later
\* candidate replaces the best so far only if it is strictly nearer.
C8_FirstWinsTies ==
    (pick_pc # "call" /\ AllMeshInvertible /\ Remaining # {})
    => /\ pick_pc = "returned"
       /\ best_obj_data = HitData(FirstNearest(Remaining))

\* Two candidates at the same, least, distance, and the first is returned
C8_Witness ==
    /\ pick_pc = "returned"
    /\ \E i, j \in Remaining :
          /\ i < j
          /\ ObjDistSq(i) = ObjDistSq(j)
          /\ HitData(i) # HitData(j)
          /\ \A k \in Remaining : RLe(ObjDistSq(i), ObjDistSq(k))
          /\ best_obj_data = HitData(i)

\* C9: the absent result (all four fields None) is returned if and only if
\* the ray meets no mesh candidate, which includes the empty list; a hit
\* returned has all four fields from one candidate's intersection.
C9_AbsentIffNoHit ==
    (pick_pc # "call" /\ AllMeshInvertible)
    => /\ pick_pc = "returned"
       /\ (best_obj_data = NoResult) <=> (Remaining = {})
       /\ (best_obj_data.object = None) => (best_obj_data = NoResult)
       /\ (best_obj_data # NoResult) =>
             \E i \in Remaining : best_obj_data = HitData(i)

\* A call on a list with meshes the ray misses and one it meets
C9_Witness ==
    /\ pick_pc = "returned"
    /\ \E i \in DOMAIN object_instances : IsMesh(i) /\ ~Intersected(i)
    /\ \E i \in Remaining : best_obj_data = HitData(i)

----------------------------------------------------------------------------
(* Properties of _adjust_scalings_and_sizes                                *)

\* Extent of the bounding box per axis, from its two corners
Extent(object) == [k \in 1..3 |-> RSub(object.bound_max[k], object.bound_min[k])]

\* Extent times scale, the x extent doubled for the half profile
PhysicalSize(object) ==
    [k \in 1..3 |-> RMul(RMul(Extent(object)[k], object.scale[k]),
                         IF k = 1 THEN R(2) ELSE R(1))]

IsPositive(a) == IsFinite(a) /\ RLt(R(0), a)

\* Positive, finite extents, scales and targets
PositiveFitInputs ==
    /\ \A k \in 1..3 : IsPositive(Extent(cosmetics_main)[k])
    /\ \A k \in 1..3 : IsPositive(cosmetics_main.scale[k])
    /\ IsPositive(max_circumference)
    /\ IsPositive(height)

\* C3: for positive, finite extents, scales and targets, the physical size
\* of the cosmetics part after the new scale is assigned (extent times new
\* scale, x doubled) is (max_circumference/pi, max_circumference/pi, height).
C3_RoundTrip ==
    [][(fit_pc = "call" /\ PositiveFitInputs)
       => PhysicalSize(cosmetics_main') =
             <<RDiv(max_circumference, np_pi), RDiv(max_circumference, np_pi), height>>]_vars

\* A template with a scale other than 1 has been fitted to the target
C3_Witness ==
    /\ fit_pc = "done"
    /\ \A k \in 1..3 : IsPositive(Extent(cosmetics_main)[k])
    /\ \A k \in 1..3 : IsPositive(cosmetics_main.scale[k])
    /\ \A k \in 1..3 : cosmetics_main.scale[k] # R(1)
    /\ PhysicalSize(cosmetics_main) =
          <<RDiv(max_circumference, np_pi), RDiv(max_circumference, np_pi), height>>

\* World z of the lowest point of the bounding box
LowestPoint(object) ==
    RAdd(object.translation[3], RMul(object.bound_min[3], object.scale[3]))

\* C4: after the operation the lowest point of the fastening clip lies
\* clip_position_z above the lowest point of the cosmetics main part, for
\* every initial scale and z translation of the two parts.
C4_ClipAboveMain ==
    (fit_pc = "done" /\ \A k \in 1..3 : IsPositive(cosmetics_main.scale[k]))
    => RSub(LowestPoint(fastening_clip), LowestPoint(cosmetics_main)) = clip_position_z

\* C5: if a component of the current physical size of the template is zero
\* the computation fails and neither assigns a new scale to the cosmetics
\* part nor moves the fastening clip.
C5_DegenerateAborts ==
    [][(fit_pc = "call" /\ \E k \in 1..3 : PhysicalSize(cosmetics_main)[k] = R(0))
       => /\ fit_pc' = "raised"
          /\ cosmetics_main' = cosmetics_main
          /\ fastening_clip' = fastening_clip]_vars

----------------------------------------------------------------------------
(* Properties of _weight_paint                                             *)

\* vertex.z - pivot.z of the vertex with index i
Elevation(i) == RSub(vertices[i + 1].co[3], ankle_point[3])

\* 1 below the pivot, then falling linearly to 0 over the deformation zone
ExpectedWeight(d) ==
    IF RLt(d, R(0)) THEN R(1)
    ELSE IF RLe(Rat(2, 100), d) THEN R(0)
    ELSE RSub(R(1), RMul(R(50), d))

\* C6: after the operation every vertex index has a weight in the foot group:
\* 1 when d < 0 and clamp(1 - d/0.02, 0, 1) when d >= 0, where d is the z of
\* the vertex less that of the pivot; so every weight lies in [0, 1], d = 0
\* gives 1, d = 0.01 gives 0.5 and d >= 0.02 gives 0.
C6_WeightField ==
    paint_pc = "done" =>
        /\ DOMAIN foot = 0..(Len(vertices) - 1)
        /\ \A i \in DOMAIN foot :
              /\ foot[i] = ExpectedWeight(Elevation(i))
              /\ RLe(R(0), foot[i]) /\ RLe(foot[i], R(1))
              /\ (Elevation(i) = R(0)) => (foot[i] = R(1))
              /\ (Elevation(i) = Rat(1, 100)) => (foot[i] = Rat(1, 2))
              /\ RLe(Rat(2, 100), Elevation(i)) => (foot[i] = R(0))

\* A painted mesh with a vertex below the pivot, one in the middle of the
\* deformation zone and one above it
C6_Witness ==
    /\ paint_pc = "done"
    /\ \E i, j, k \in DOMAIN foot :
          /\ RLt(Elevation(i), R(0)) /\ foot[i] = R(1)
          /\ Elevation(j) = Rat(1, 100) /\ foot[j] = Rat(1, 2)
          /\ RLt(Rat(2, 100), Elevation(k)) /\ foot[k] = R(0)

----------------------------------------------------------------------------
(* Properties of the operators on the scene                                *)

IsImportedScan(objs, o) == KEY_IMPORTED_SCAN \in objs[o].keys

\* The objects the claim names as the targets of permanent_modifiers
ClaimedTargets ==
    IF active_object # NoId /\ objects[active_object].type = "MESH"
    THEN {active_object}
    ELSE { o \in DOMAIN objects : IsImportedScan(objects, o) }

\* The step tags the objects import_file adds to the scene, and no other
TagsOnlyImports ==
    \A o \in DOMAIN objects' :
        IsImportedScan(objects', o) <=>
            \/ o \in DOMAIN objects /\ IsImportedScan(objects, o)
            \/ o \notin DOMAIN objects /\ last_op'.idname = "import_file"

\* C10: permanent_modifiers processes exactly the active object if that is
\* a mesh, and otherwise exactly the objects tagged as imported scans, which
\* are those, and only those, import_file added to the scene; if there is
\* none it returns CANCELLED and leaves every object as it was.
C10_PermanentTargets ==
    [][/\ TagsOnlyImports
       /\ (last_op'.idname = "permanent_modifiers") =>
             /\ (ClaimedTargets = {}) <=> (last_op'.result = "CANCELLED")
             /\ (ClaimedTargets = {}) => (objects' = objects)
             /\ (ClaimedTargets # {}) => (last_op'.result = "FINISHED")
             /\ \A o \in DOMAIN objects :
                   /\ (o \in ClaimedTargets) =>
                         /\ o \in DOMAIN objects'
                         /\ objects'[o].data # objects[o].data
                         /\ objects'[o].modifiers = <<>>
                   /\ (o \notin ClaimedTargets /\ o \in DOMAIN objects') =>
                         objects'[o] = objects[o]
                   /\ (o \notin DOMAIN objects') =>
                         \E t \in ClaimedTargets :
                             objects[t].parent = o /\ IsManaged(objects, o)]_vars

\* permanent_modifiers has run with no mesh active: an imported scan has a
\* new mesh and no modifiers, a mesh that is no scan is as it was
C10_Witness ==
    /\ last_op = [idname |-> "permanent_modifiers", result |-> "FINISHED"]
    /\ active_object = NoId \/ objects[active_object].type # "MESH"
    /\ \E o \in DOMAIN objects :
          IsImportedScan(objects, o) /\ objects[o].data = 1 /\ objects[o].modifiers = <<>>
    /\ \E o \in DOMAIN objects :
          ~IsImportedScan(objects, o) /\ objects[o].type = "MESH" /\ objects[o].data = 0


----------------------------------------------------------------------------
(* Properties of what set_foot_pivot generates and permanent_modifiers     *)
(* clears                                                                   *)

\* The vertex groups of an object whose name has the id in it
AutogenGroups(obj) ==
    { k \in DOMAIN obj.vertex_groups : IsAutogenName(obj.vertex_groups[k]) }

\* The modifiers of an object whose name has the id in it
AutogenModifiers(obj) ==
    { k \in DOMAIN obj.modifiers : IsAutogenName(obj.modifiers[k].name) }

\* The armature modifiers of the object o that are bound to a managed armature
ManagedArmatureModifiers(objs, o) ==
    { k \in DOMAIN objs[o].modifiers :
        /\ objs[o].modifiers[k].type = "ARMATURE"
        /\ IsManaged(objs, objs[o].modifiers[k].object) }

\* The objects tagged as managed armatures
ManagedArmatures(objs) == { a \in DOMAIN objs : IsManaged(objs, a) }

\* The managed armatures that are the parent of the object o or bound to one
\* of its modifiers
ArmaturesOf(objs, o) ==
    { a \in ManagedArmatures(objs) :
        \/ objs[o].parent = a
        \/ \E k \in DOMAIN objs[o].modifiers : objs[o].modifiers[k].object = a }

\* What a run of set_foot_pivot on the leg leaves, objs being the scene after
\* the run and before the scene before it
OneOfEach(before, objs, leg) ==
    /\ leg \in DOMAIN objs
    /\ Cardinality(AutogenGroups(objs[leg])) = 1
    /\ Cardinality(AutogenModifiers(objs[leg])) = 1
    /\ \A k \in AutogenModifiers(objs[leg]) :
          objs[leg].modifiers[k].type = "CORRECTIVE_SMOOTH"
    /\ Cardinality(ManagedArmatureModifiers(objs, leg)) = 1
    /\ \A k \in ManagedArmatureModifiers(objs, leg) :
          objs[leg].modifiers[k].object = objs[leg].parent
    /\ IsManaged(objs, objs[leg].parent)
    /\ objs[leg].parent \notin DOMAIN before
    /\ \A a \in ManagedArmatures(objs) : a <= objs[leg].parent
    /\ ArmaturesOf(objs, leg) = {objs[leg].parent}
    /\ \A a \in ArmaturesOf(before, leg) : a \notin DOMAIN objs

\* C11: after every run of set_foot_pivot on a leg, the first or a later
\* one, the leg has exactly one vertex group and exactly one modifier (the
\* corrective smooth) with 'foot_auto_gen' in the name, exactly one armature
\* modifier bound to a managed armature, and its parent is the managed
\* armature made last; the armature of the run before is gone.
C11_OneOfEach ==
    [][(last_op'.idname = "set_foot_pivot") =>
          OneOfEach(objects, objects', active_object)]_vars

\* set_foot_pivot has run twice on the only mesh of the scene: the armature
\* of the first run is gone and the one of the second is the parent
C11_Witness ==
    /\ last_op = [idname |-> "set_foot_pivot", result |-> "FINISHED"]
    /\ DOMAIN objects = {1, 3}
    /\ next_id = 4
    /\ objects[1].type = "MESH" /\ objects[1].data = 0
    /\ objects[1].parent = 3
    /\ IsManaged(objects, 3)

\* Every managed armature of the scene is the parent of a mesh
NoOrphanedArmature ==
    \A a \in ManagedArmatures(objects) :
        \E leg \in DOMAIN objects :
            objects[leg].type = "MESH" /\ objects[leg].parent = a

\* A run of permanent_modifiers that returns FINISHED leaves its targets
\* without modifiers and without a managed armature as parent
PermanentClears ==
    (last_op' = [idname |-> "permanent_modifiers", result |-> "FINISHED"]) =>
        \A o \in ClaimedTargets :
            /\ o \in DOMAIN objects'
            /\ objects'[o].modifiers = <<>>
            /\ ~IsManaged(objects', objects'[o].parent)

\* C12: whatever the interleaving of set_foot_pivot and permanent_modifiers
\* over the meshes of a scene, every object tagged 'managed_armature' is the
\* parent of a mesh, and after permanent_modifiers returns FINISHED each
\* object it processed has no modifiers and no managed armature as parent.
C12_NoOrphanedArmature ==
    []NoOrphanedArmature /\ [][PermanentClears]_vars

\* Two legs each got a pivot; permanent_modifiers then ran on one of them,
\* which lost its armature and its modifiers while the other leg kept its own
C12_Witness ==
    /\ last_op = [idname |-> "permanent_modifiers", result |-> "FINISHED"]
    /\ \E l1, l2 \in DOMAIN objects :
          /\ l1 # l2
          /\ AutogenGroups(objects[l1]) # {}
          /\ objects[l1].data = 1
          /\ objects[l1].modifiers = <<>>
          /\ objects[l1].parent = NoId
          /\ objects[l2].type = "MESH"
          /\ IsManaged(objects, objects[l2].parent)
====
